---- MODULE Spec2Model ----
(***************************************************************************)
(* The 2D sandpile simulation of sandpile_2D.py: the main drop loop, the   *)
(* relaxation waves, the neighbour lookup with open boundaries, the        *)
(* running average series and the cascade magnitude histogram.             *)
(*                                                                         *)
(* The script is one sequential process.  pc is its position:              *)
(*   "drop"   top of the for loop over the iterations (line 168)           *)
(*   "wave"   inside `for j in range(counter)` (line 207), j < counter     *)
(*   "scan"   after the for loop of a wave (line 237)                      *)
(*   "stats"  after the while loop (line 241)                              *)
(*   "done"   after the last iteration                                     *)
(*   "idle"   the drop loop is not the part being run (see below)          *)
(*   "called" getNeighbors has been called on its own (NeighborSpec)       *)
(* Cells are pairs <<x, y>> with 0-based coordinates, as in the source.    *)
(* A mean is a rational <<numerator, denominator>>.                        *)
(*                                                                         *)
(* Spec runs the drop loop from the state the set-up leaves, for valid     *)
(* configurations.  ConfigSpec runs the set-up of sandpile_2D.py (lines    *)
(* 96-165) up to the first deposit for any configuration, valid or not.    *)
(* VideoSpec runs images_to_video.py on the frames a run has saved.        *)
(* NeighborSpec calls getNeighbors for any cell of lattices of more sides. *)
(***************************************************************************)
EXTENDS Integers, Sequences, FiniteSets

\* ------------------------------------------------------------------ bounds
\* The source runs grid_size = 30, iterations = 500, max_cascade = 100 and
\* num_bins = 50; the model runs the same code on small values of them.
MaxGridSize == 2
iterations == 2
max_cascade == 4
num_bins == 2
\* No cascade of the model is longer (the guard of ToppleStep); cs itself is
\* an unbounded Python integer.
MaxCascadeSteps == 30
\* ConfigSpec draws grid_size, num_bins and max_cascade from -MaxConfig..MaxConfig.
MaxConfig == 2
\* VideoSpec: the largest number of frames in the image directory.
NumFrames == 4
\* NeighborSpec calls getNeighbors on the lattices of side 1..MaxNeighborGrid.
MaxNeighborGrid == 8

\* The height at which a cell topples (the literal 4 of lines 193 and 238).
topple_threshold == 4

\* Width of the zero-padded frame number in a file name (zfill(8), line 188).
zfill_width == 8

\* The display switch of line 78; it only guards the draw calls.
flag_display == TRUE

VARIABLES
    grid_size,    \* side of the lattice (line 71), fixed during a run
    flag_save,    \* the save switch (line 77, False in the source), fixed during a
                  \* run; it only guards the savefig calls
    grid,         \* the heights (line 106)
    grid_iter,    \* per-drop toppled-count grid (line 109)
    avg,          \* running average series (line 112)
    bin_counts,   \* histogram bin counts (line 103)
    i,            \* number of iterations of the for loop already finished
    cs,           \* cascade size of the current drop (line 171)
    idx, idy,     \* the current cell (lines 174, 211, 212); idx is reused at line 247
    counter,      \* size of the current batch (lines 194, 200, 239)
    idx4,         \* the current batch: <<row indices, column indices>> (lines 195, 238)
    j,            \* position inside the batch (line 207)
    xnbr, ynbr,   \* last result of getNeighbors (line 217)
    im,           \* the data last handed to the grid image (lines 126, 180, 223)
    topples,      \* number of executions of line 213 in the current drop
    toppled,      \* per cell, the number of executions of line 213 in the current drop
    left,         \* the positions of the batch the for loop of line 207 has yet to visit
    wave0,        \* <<grid, grid_iter, cs>> when the current wave started
    draws,        \* number of calls of plt.draw() so far (lines 160, 183, 228, 268)
    fig_cnt,      \* number of frames saved so far (lines 165, 190, 235)
    pc,
    \* sandpile_2D.py from its first line, for any configuration (ConfigSpec)
    cfg_grid_size,    \* grid_size (line 71)
    cfg_max_cascade,  \* max_cascade (line 86)
    cfg_num_bins,     \* num_bins (line 87)
    cfg_avg0,         \* avg[0], the baseline statistic, has been written (line 115)
    cfg_line,         \* the line that raised, 0 while none has
    cfg_pc,           \* "bins" (line 96), "grid" (106), "figure" (119), "loop" (168),
                      \* "drop" (after line 177), "finished", "raised", "idle"
    \* images_to_video.py (VideoSpec)
    files,            \* the list glob returned (line 58)
    cnt,              \* number of frames written (lines 65, 87)
    video,            \* the frames written to the video, in order (line 80)
    first_read,       \* the frame whose shape fixed the frame size (lines 70-78)
    vid_pc            \* "frames" (line 66), "released" or "raised" (line 92), "idle"

mainvars == <<grid_size, flag_save, grid, grid_iter, avg, bin_counts, i, cs, idx, idy,
              counter, idx4, j, xnbr, ynbr, im, topples, toppled, left,
              wave0, draws, fig_cnt, pc>>

cfgvars == <<cfg_grid_size, cfg_max_cascade, cfg_num_bins, cfg_avg0, cfg_line, cfg_pc>>

vidvars == <<files, cnt, video, first_read, vid_pc>>

vars == <<mainvars, cfgvars, vidvars>>

\* ------------------------------------------------------------- arithmetic
\* A numpy int8 value after an in-place addition (two's complement wrap).
Int8(v) == ((v + 128) % 256) - 128

\* Equality of two rationals <<numerator, denominator>>.
RatEq(a, b) == a[1] * b[2] = b[1] * a[2]

Min(S) == CHOOSE m \in S : \A n \in S : m <= n

\* The elements of s at the (1-based) positions in K, in increasing position.
TakeIdx(s, K) ==
    LET F[k \in 0..Len(s)] ==
            IF k = 0 THEN <<>>
            ELSE IF k \in K THEN Append(F[k-1], s[k]) ELSE F[k-1]
    IN F[Len(s)]

\* ------------------------------------------------------------------- grid
Cells == (0..(grid_size-1)) \X (0..(grid_size-1))

\* The cell of row-major rank k (0-based), the order of numpy's flat iteration.
CellAt(k) == <<k \div grid_size, k % grid_size>>

\* np.zeros((grid_size, grid_size), dtype=np.int8)
ZeroGrid == [c \in Cells |-> 0]

\* Sum of all heights of g.
SumGrid(g) ==
    LET F[k \in 0..(grid_size*grid_size)] ==
            IF k = 0 THEN 0 ELSE F[k-1] + g[CellAt(k-1)]
    IN F[grid_size*grid_size]

\* np.mean(grid) / np.average(grid): the sum over the number of elements.
average(g) == <<SumGrid(g), grid_size * grid_size>>

\* getNeighbors(x, y): <<xs, ys>>, the coordinate arrays of the neighbours.
getNeighborsWrap(x, y) ==
    <<  <<(x-1) % grid_size, x, x, (x+1) % grid_size>>,
        <<y, (y-1) % grid_size, (y+1) % grid_size, y>>  >>

getNeighbors(x, y) ==
    LET xs == <<x-1, x, x, x+1>>
        ys == <<y, y-1, y+1, y>>
        x_idx == {k \in 1..4 : xs[k] >= 0 /\ xs[k] < grid_size}
        y_idx == {k \in 1..4 : ys[k] >= 0 /\ ys[k] < grid_size}
        keep_idx == x_idx \cap y_idx
    IN <<TakeIdx(xs, keep_idx), TakeIdx(ys, keep_idx)>>

\* grid[xs, ys] += 1 with index arrays: every addressed cell gets one more.
AddOne(g, xs, ys) ==
    [c \in DOMAIN g |->
        IF \E k \in 1..Len(xs) : c = <<xs[k], ys[k]>> THEN Int8(g[c] + 1) ELSE g[c]]

\* Line 193: grid[idx, idy] >= 4.
UnstableEager(g, c) == g[c] >= topple_threshold - 1

Unstable(g, c) == g[c] >= topple_threshold

\* Lines 213-220: zero the cell, then add 1 to each of its neighbours.
ToppleNoReset(g, x, y) ==
    LET nb == getNeighbors(x, y)
    IN AddOne(g, nb[1], nb[2])

Topple(g, x, y) ==
    LET nb == getNeighbors(x, y)
    IN AddOne([g EXCEPT ![<<x, y>>] = 0], nb[1], nb[2])

\* np.where(grid >= 4): <<row indices, column indices>> in row-major order.
WhereAbove(g) ==
    LET n2 == grid_size * grid_size
        F[k \in 0..n2] ==
            IF k = 0 THEN <<>>
            ELSE IF g[CellAt(k-1)] > topple_threshold
                 THEN Append(F[k-1], CellAt(k-1)) ELSE F[k-1]
        cells == F[n2]
    IN << [m \in 1..Len(cells) |-> cells[m][1]], [m \in 1..Len(cells) |-> cells[m][2]] >>

\* The scan with a threshold one too low.
WhereUnstableLow(g) ==
    LET n2 == grid_size * grid_size
        F[k \in 0..n2] ==
            IF k = 0 THEN <<>>
            ELSE IF g[CellAt(k-1)] >= topple_threshold - 1
                 THEN Append(F[k-1], CellAt(k-1)) ELSE F[k-1]
        cells == F[n2]
    IN << [m \in 1..Len(cells) |-> cells[m][1]], [m \in 1..Len(cells) |-> cells[m][2]] >>

\* The scan that keeps only the first unstable cell it finds.
WhereUnstableFirst(g) ==
    LET n2 == grid_size * grid_size
        F[k \in 0..n2] ==
            IF k = 0 THEN <<>>
            ELSE IF g[CellAt(k-1)] >= topple_threshold /\ F[k-1] = <<>>
                 THEN <<CellAt(k-1)>> ELSE F[k-1]
        cells == F[n2]
    IN << [m \in 1..Len(cells) |-> cells[m][1]], [m \in 1..Len(cells) |-> cells[m][2]] >>

WhereUnstable(g) ==
    LET n2 == grid_size * grid_size
        F[k \in 0..n2] ==
            IF k = 0 THEN <<>>
            ELSE IF g[CellAt(k-1)] >= topple_threshold
                 THEN Append(F[k-1], CellAt(k-1)) ELSE F[k-1]
        cells == F[n2]
    IN << [m \in 1..Len(cells) |-> cells[m][1]], [m \in 1..Len(cells) |-> cells[m][2]] >>

\* Lines 207-220 for a whole batch b = <<row indices, column indices>>,
\* visited in the order of b, from w = <<grid, grid_iter, cs>>.
RowMajorWave(w, b) ==
    LET F[k \in 0..Len(b[1])] ==
            IF k = 0 THEN w
            ELSE << Topple(F[k-1][1], b[1][k], b[2][k]),
                    [F[k-1][2] EXCEPT ![<<b[1][k], b[2][k]>>] = Int8(@ + 1)],
                    F[k-1][3] + 1 >>
    IN F[Len(b[1])]

\* -------------------------------------------------------------- statistics
\* np.where(bin_cutoffs > s): the indices k of the cutoffs k*max_cascade/num_bins
\* (np.linspace(0, max_cascade, num_bins+1)) that exceed s.
CutoffsAbove(s) == {k \in 0..num_bins : k * max_cascade > s * num_bins}

\* Line 247: np.amin(np.where(bin_cutoffs > cs)) - 1.
BinIndexNoShift(s) == Min(CutoffsAbove(s))

BinIndex(s) == Min(CutoffsAbove(s)) - 1

\* np.amin of an empty array raises; the except clause of line 249 catches it.
BinRaises(s) == CutoffsAbove(s) = {}

\* Lines 246-250 on the bin counts.
RecordAvalanche(bc, s) ==
    IF BinRaises(s) THEN bc
    ELSE [bc EXCEPT ![BinIndex(s)] = @ + 1]

\* Line 242: avg[k+1] = np.average(grid).
RecordAverageSameSlot(a, k, g) == [a EXCEPT ![k] = average(g)]

RecordAverage(a, k, g) == [a EXCEPT ![k+1] = average(g)]

\* ----------------------------------------------------------- initial state
\* Line 106: np.random.randint(0, high=4) for every cell independently: any
\* grid of heights 0..3.
InitGrids == [Cells -> 0..(topple_threshold - 1)]

\* sandpile_2D.py is not run from its first line.
CfgIdle ==
    /\ cfg_grid_size = 0
    /\ cfg_max_cascade = 0
    /\ cfg_num_bins = 0
    /\ cfg_avg0 = FALSE
    /\ cfg_line = 0
    /\ cfg_pc = "idle"

\* images_to_video.py is not run.
VidIdle ==
    /\ files = <<>>
    /\ cnt = 0
    /\ video = <<>>
    /\ first_read = <<>>
    /\ vid_pc = "idle"

Init ==
    /\ CfgIdle
    /\ VidIdle
    /\ grid_size \in 1..MaxGridSize
    /\ flag_save \in BOOLEAN
    /\ grid \in InitGrids
    /\ grid_iter = ZeroGrid
    /\ avg = [k \in 0..iterations |-> IF k = 0 THEN average(grid) ELSE <<0, 1>>]
    /\ bin_counts = [b \in 0..(num_bins-1) |-> 0]
    /\ i = 0
    /\ cs = 0
    /\ idx = 0
    /\ idy = 0
    /\ counter = 0
    /\ idx4 = << <<>>, <<>> >>
    /\ j = 0
    /\ xnbr = <<>>
    /\ ynbr = <<>>
    /\ im = grid
    /\ topples = 0
    /\ toppled = ZeroGrid
    /\ left = {}
    /\ wave0 = <<grid, grid_iter, cs>>
    /\ draws = IF flag_display THEN 1 ELSE 0
    /\ fig_cnt = 0
    /\ pc = IF iterations > 0 THEN "drop" ELSE "done"

\* ----------------------------------------------------------------- actions
\* Lines 170-200: deposit one grain on a random cell and start the cascade.
Deposit ==
    /\ pc = "drop"
    /\ \E c \in Cells :
        LET g1 == [grid EXCEPT ![c] = Int8(@ + 1)]
            unstable == Unstable(g1, c)
        IN /\ idx' = c[1]
           /\ idy' = c[2]
           /\ grid' = g1
           /\ im' = g1
           /\ counter' = IF unstable THEN 1 ELSE 0
           /\ idx4' = IF unstable THEN << <<c[1]>>, <<c[2]>> >> ELSE idx4
           /\ grid_iter' = IF unstable THEN [grid_iter EXCEPT ![c] = Int8(@ + 1)]
                           ELSE grid_iter
           /\ cs' = IF unstable THEN 1 ELSE 0
           /\ pc' = IF unstable THEN "wave" ELSE "stats"
    /\ j' = 0
    /\ topples' = 0
    /\ toppled' = ZeroGrid
    /\ left' = 1..counter'
    /\ wave0' = <<grid', grid_iter', cs'>>
    /\ draws' = IF flag_display THEN draws + 1 ELSE draws
    /\ fig_cnt' = IF flag_save THEN fig_cnt + 1 ELSE fig_cnt
    /\ UNCHANGED <<grid_size, avg, bin_counts, i, xnbr, ynbr>>
    /\ UNCHANGED <<flag_save, cfgvars, vidvars>>

\* Lines 208-235: one pass of the for loop of a wave, on position k (1-based)
\* of the batch.
ToppleAt(k) ==
    /\ pc = "wave"
    /\ cs < MaxCascadeSteps
    /\ LET x == idx4[1][k]
           y == idx4[2][k]
           nb == getNeighbors(x, y)
       IN /\ cs' = cs + 1
          /\ idx' = x
          /\ idy' = y
          /\ grid_iter' = [grid_iter EXCEPT ![<<x, y>>] = Int8(@ + 1)]
          /\ xnbr' = nb[1]
          /\ ynbr' = nb[2]
          /\ grid' = Topple(grid, x, y)
          /\ im' = grid'
          /\ toppled' = [toppled EXCEPT ![<<x, y>>] = @ + 1]
    /\ topples' = topples + 1
    /\ j' = j + 1
    /\ left' = left \ {k}
    /\ draws' = IF flag_display THEN draws + 1 ELSE draws
    /\ fig_cnt' = IF flag_save THEN fig_cnt + 1 ELSE fig_cnt
    /\ pc' = IF j + 1 < counter THEN "wave" ELSE "scan"
    /\ UNCHANGED <<grid_size, avg, bin_counts, i, counter, idx4, wave0>>
    /\ UNCHANGED <<flag_save, cfgvars, vidvars>>

\* The for loop of line 207 visits the batch in the order of idx4: the
\* toppling of idx4[j].
ToppleStep == ToppleAt(j + 1)

\* The same pass for a loop that visits the batch in any order.
ToppleAnyOrder == \E k \in left : ToppleAt(k)

\* Lines 237-239 and the test of line 204: rescan the grid for the next batch.
Scan ==
    /\ pc = "scan"
    /\ idx4' = WhereUnstable(grid)
    /\ counter' = Len(idx4'[1])
    /\ j' = 0
    /\ pc' = IF counter' # 0 THEN "wave" ELSE "stats"
    /\ left' = 1..counter'
    /\ wave0' = <<grid, grid_iter, cs>>
    /\ UNCHANGED <<grid_size, grid, grid_iter, avg, bin_counts, i, cs, idx, idy,
                   xnbr, ynbr, im, topples, toppled, draws, fig_cnt>>
    /\ UNCHANGED <<flag_save, cfgvars, vidvars>>

\* Lines 241-271: record the average and the cascade size, end the iteration.
Record ==
    /\ pc = "stats"
    /\ avg' = RecordAverage(avg, i, grid)
    /\ bin_counts' = RecordAvalanche(bin_counts, cs)
    /\ IF BinRaises(cs)
       THEN \* except: continue (line 250)
            UNCHANGED <<idx, grid_iter, draws>>
       ELSE /\ idx' = BinIndex(cs)
            /\ draws' = IF flag_display THEN draws + 1 ELSE draws
            /\ grid_iter' = ZeroGrid
    /\ i' = i + 1
    /\ pc' = IF i + 1 < iterations THEN "drop" ELSE "done"
    /\ UNCHANGED <<grid_size, grid, cs, idy, counter, idx4, j, xnbr, ynbr, im, topples,
                   toppled, left, wave0, fig_cnt>>
    /\ UNCHANGED <<flag_save, cfgvars, vidvars>>

Next == Deposit \/ ToppleStep \/ Scan \/ Record

Spec == Init /\ [][Next]_vars

\* The script runs on without pause until the loop over the iterations ends.
FairSpec == Spec /\ WF_vars(Next)

\* The drop loop with a for loop of line 207 that may visit the cells of a
\* batch in any order (np.where fixes the row-major one).
AnyOrderNext == Deposit \/ ToppleAnyOrder \/ Scan \/ Record

AnyOrderSpec == Init /\ [][AnyOrderNext]_vars

\* ------------------------------------------------- the set-up (ConfigSpec)
\* The drop loop is not the part being run; the lattice has side n.
MainIdleFor(n) ==
    /\ grid_size = n
    /\ flag_save = FALSE
    /\ grid = ZeroGrid
    /\ grid_iter = ZeroGrid
    /\ avg = <<>>
    /\ bin_counts = <<>>
    /\ i = 0
    /\ cs = 0
    /\ idx = 0
    /\ idy = 0
    /\ counter = 0
    /\ idx4 = << <<>>, <<>> >>
    /\ j = 0
    /\ xnbr = <<>>
    /\ ynbr = <<>>
    /\ im = ZeroGrid
    /\ topples = 0
    /\ toppled = ZeroGrid
    /\ left = {}
    /\ wave0 = <<>>
    /\ draws = 0
    /\ fig_cnt = 0
    /\ pc = "idle"

MainIdle == MainIdleFor(1)

\* The values a configuration entry is drawn from.
ConfigValues == (0 - MaxConfig)..MaxConfig

\* The state before line 96, for any values of the constants of lines 71-87.
ConfigInit ==
    /\ MainIdle
    /\ VidIdle
    /\ cfg_grid_size \in ConfigValues
    /\ cfg_max_cascade \in ConfigValues
    /\ cfg_num_bins \in ConfigValues
    /\ cfg_avg0 = FALSE
    /\ cfg_line = 0
    /\ cfg_pc = "bins"

\* The line of lines 97-103 that raises for num_bins = nb, 0 if none does:
\* np.linspace refuses a negative number of samples (num_bins+1 at line 97,
\* num_bins at line 100) and max_cascade / num_bins divides by zero (line 98).
BinsRaisesAt(nb) ==
    IF nb + 1 < 0 THEN 97
    ELSE IF nb = 0 THEN 98
    ELSE IF nb < 0 THEN 100
    ELSE 0

\* The line of lines 106-115 that raises for grid_size = gs, 0 if none does:
\* np.random.randint refuses a negative dimension (line 106); an empty grid
\* is created and its mean (nan) is stored in avg[0].
GridRaisesAt(gs) == IF gs < 0 THEN 106 ELSE 0

\* The line of lines 171-177 that raises for grid_size = gs, 0 if none does:
\* np.random.randint(0, high=grid_size) refuses an empty range (line 174).
DepositRaisesAt(gs) == IF gs <= 0 THEN 174 ELSE 0

\* Lines 96-103: the bin cutoffs, the bin mid points and the bin counts.
CfgBins ==
    /\ cfg_pc = "bins"
    /\ cfg_line' = BinsRaisesAt(cfg_num_bins)
    /\ cfg_pc' = IF cfg_line' # 0 THEN "raised" ELSE "grid"
    /\ UNCHANGED <<cfg_grid_size, cfg_max_cascade, cfg_num_bins, cfg_avg0>>
    /\ UNCHANGED <<mainvars, vidvars>>

\* Lines 105-116: the grids and the average series with its baseline entry.
CfgGrid ==
    /\ cfg_pc = "grid"
    /\ cfg_line' = GridRaisesAt(cfg_grid_size)
    /\ cfg_avg0' = (cfg_line' = 0)
    /\ cfg_pc' = IF cfg_line' # 0 THEN "raised" ELSE "figure"
    /\ UNCHANGED <<cfg_grid_size, cfg_max_cascade, cfg_num_bins>>
    /\ UNCHANGED <<mainvars, vidvars>>

\* Lines 118-165: the matplotlib figure.  What matplotlib does with an empty
\* image (grid_size = 0) is not decided by this repository: it either raises
\* (line 126) or goes on.
CfgFigure ==
    /\ cfg_pc = "figure"
    /\ \/ /\ cfg_pc' = "loop"
          /\ cfg_line' = 0
       \/ /\ cfg_grid_size = 0
          /\ cfg_pc' = "raised"
          /\ cfg_line' = 126
    /\ UNCHANGED <<cfg_grid_size, cfg_max_cascade, cfg_num_bins, cfg_avg0>>
    /\ UNCHANGED <<mainvars, vidvars>>

\* Lines 168-177: the first pass of the for loop up to its deposit.
CfgFirstDrop ==
    /\ cfg_pc = "loop"
    /\ IF iterations = 0
       THEN /\ cfg_pc' = "finished"
            /\ cfg_line' = 0
       ELSE /\ cfg_line' = DepositRaisesAt(cfg_grid_size)
            /\ cfg_pc' = IF cfg_line' # 0 THEN "raised" ELSE "drop"
    /\ UNCHANGED <<cfg_grid_size, cfg_max_cascade, cfg_num_bins, cfg_avg0>>
    /\ UNCHANGED <<mainvars, vidvars>>

ConfigNext == CfgBins \/ CfgGrid \/ CfgFigure \/ CfgFirstDrop

ConfigSpec == ConfigInit /\ [][ConfigNext]_vars

\* ------------------------------------------- getNeighbors (NeighborSpec)
\* getNeighbors reads the global grid_size: any side up to MaxNeighborGrid.
NeighborInit ==
    /\ CfgIdle
    /\ VidIdle
    /\ \E n \in 1..MaxNeighborGrid : MainIdleFor(n)

\* Line 217 on its own: xnbr, ynbr = getNeighbors(idx, idy) for any cell.
CallGetNeighbors ==
    /\ pc \in {"idle", "called"}
    /\ \E x, y \in 0..(grid_size - 1) :
          /\ idx' = x
          /\ idy' = y
          /\ xnbr' = getNeighbors(x, y)[1]
          /\ ynbr' = getNeighbors(x, y)[2]
    /\ pc' = "called"
    /\ UNCHANGED <<grid_size, flag_save, grid, grid_iter, avg, bin_counts, i, cs,
                   counter, idx4, j, im, topples, toppled, left, wave0, draws, fig_cnt>>
    /\ UNCHANGED <<cfgvars, vidvars>>

NeighborNext == CallGetNeighbors

NeighborSpec == NeighborInit /\ [][NeighborNext]_vars

\* ------------------------------------------- images_to_video.py (VideoSpec)
\* str(n) for n >= 0: the decimal digits of n.
RECURSIVE str(_)
str(n) == IF n < 10 THEN <<n>> ELSE Append(str(n \div 10), n % 10)

\* s.zfill(w): s padded with zeros on the left up to the width w.
RECURSIVE zfill(_, _)
zfill(s, w) == IF Len(s) >= w THEN s ELSE zfill(<<0>> \o s, w)

\* Lines 188 and 233: the name under which frame number n is saved (its
\* digits; the directory and the extension are the same for all frames).
figname(n) == zfill(str(n), zfill_width)

\* The names in the image directory after a run that saved n frames (none
\* when the run had flag_save = False).
SavedFrames(n) == { figname(m) : m \in 0..(n - 1) }

\* glob.glob (line 58): the names in the directory, in an arbitrary order.
GlobResults ==
    UNION { { f \in [1..n -> SavedFrames(n)] : \A a, b \in 1..n : a # b => f[a] # f[b] } :
                n \in 0..NumFrames }

VideoInit ==
    /\ MainIdle
    /\ CfgIdle
    /\ files \in GlobResults
    /\ cnt = 0
    /\ video = <<>>
    /\ first_read = <<>>
    /\ vid_pc = "frames"

\* Lines 66-87: one pass of the for loop over the files.
VidWrite ==
    /\ vid_pc = "frames"
    /\ cnt < Len(files)
    /\ first_read' = IF cnt = 0 THEN files[cnt + 1] ELSE first_read
    /\ video' = Append(video, files[cnt + 1])
    /\ cnt' = cnt + 1
    /\ UNCHANGED <<files, vid_pc>>
    /\ UNCHANGED <<mainvars, cfgvars>>

\* Lines 90-92: the loop is over, the video is released.  The writer is
\* created in the first pass of the loop (line 78): with no file the name
\* video is unbound and line 92 raises NameError.
VidRelease ==
    /\ vid_pc = "frames"
    /\ cnt = Len(files)
    /\ vid_pc' = IF cnt = 0 THEN "raised" ELSE "released"
    /\ UNCHANGED <<files, cnt, video, first_read>>
    /\ UNCHANGED <<mainvars, cfgvars>>

VideoNext == VidWrite \/ VidRelease

VideoSpec == VideoInit /\ [][VideoNext]_vars

\* ===================================================================
\* Properties
\* ===================================================================
Stable(g) == \A c \in Cells : g[c] < topple_threshold

\* The cells among the four orthogonal offsets of <<x, y>> that lie on the lattice.
InBounds(x, y) ==
    { c \in { <<x-1, y>>, <<x+1, y>>, <<x, y-1>>, <<x, y+1>> } :
        /\ c[1] >= 0 /\ c[1] < grid_size
        /\ c[2] >= 0 /\ c[2] < grid_size }

\* The pairs of two coordinate arrays.
Pairs(xs, ys) == { <<xs[k], ys[k]>> : k \in 1..Len(xs) }

\* The script is between two drops, or between relaxation and statistics.
Relaxed == pc \in {"drop", "stats", "done"}

\* ------------------------------------------------------------------- C1
\* C1: after each completed drop (the while loop has exited) every cell
\* height is below topple_threshold, so the grid is stable on entry to
\* every drop.
PostDropStability == Relaxed => Stable(grid)

\* A cascade of several topplings has ended.
PostDropStabilityWitness == pc = "stats" /\ topples >= 2 /\ Stable(grid)

\* ------------------------------------------------------------------- C2
\* C2: the run of all the iterations completes: the relaxation loop of every
\* drop ends after finitely many waves (the statistics of a drop, and so the
\* end of the run, are reached only when the scan finds no unstable cell).
DropTerminates == <>(pc = "done")

\* The run is over and its last drop was a cascade of several waves.
DropTerminatesWitness == pc = "done" /\ i = iterations /\ topples >= 3

\* ------------------------------------------------------------------- C3
\* C3: the cascade size cs recorded for a drop equals the number of
\* toppling occurrences (cell zeroings) of that drop.
AvalancheSizeIsTopplingCount == pc = "stats" => cs = topples

\* ------------------------------------------------------------------- C4
\* C4: every toppling step changes the total mass of the grid by exactly
\* -(4 - k), k the number of in-bounds neighbours of the toppled cell.
MassChangeOfToppling ==
    [][ pc = "wave" =>
          SumGrid(grid') = SumGrid(grid)
              - (topple_threshold - Cardinality(InBounds(idx4[1][j+1], idx4[2][j+1]))) ]_vars

\* ------------------------------------------------------------------- C5
\* C5: recording a size >= max_cascade changes no bin count and raises no
\* error; recording a size 0 <= s < max_cascade adds 1 to exactly the bin b
\* with b*w <= s < (b+1)*w, w = max_cascade/num_bins, and to no other bin.
HistogramDomainPolicy ==
    [][ pc = "stats" =>
          /\ pc' \in {"drop", "done"}
          /\ IF cs >= max_cascade
             THEN bin_counts' = bin_counts
             ELSE \E b \in 0..(num_bins-1) :
                    /\ b * max_cascade <= cs * num_bins
                    /\ cs * num_bins < (b+1) * max_cascade
                    /\ bin_counts'[b] = bin_counts[b] + 1
                    /\ \A b2 \in (0..(num_bins-1)) \ {b} : bin_counts'[b2] = bin_counts[b2] ]_vars

\* Number of avalanches the histogram holds.
BinTotal ==
    LET F[k \in 0..num_bins] == IF k = 0 THEN 0 ELSE F[k-1] + bin_counts[k-1]
    IN F[num_bins]

\* One drop was recorded in a bin and a later one, at or above max_cascade,
\* was discarded.
HistogramDomainPolicyWitness ==
    /\ pc \in {"drop", "done"}
    /\ cs >= max_cascade
    /\ BinTotal >= 1
    /\ BinTotal < i

\* ------------------------------------------------------------------- C6
\* C6: at the start of every drop the per-drop toppled-count grid
\* grid_iter is all zero.
GridIterZeroAtDropStart == pc = "drop" => grid_iter = ZeroGrid

\* ------------------------------------------------------------------- C7
\* C7 as stated: whenever the grid is handed to the renderer every cell
\* height lies in [0, topple_threshold].
RendererGridRange == \A c \in Cells : im[c] >= 0 /\ im[c] <= topple_threshold

\* C7 amended: whenever the grid is handed to the renderer every cell
\* height lies in [0, 7]: a stable cell (at most 3) can receive one grain
\* from each of its four neighbours before it is toppled.
RendererGridRangeAmended ==
    \A c \in Cells : im[c] >= 0 /\ im[c] <= (topple_threshold - 1) + 4

\* The renderer is shown a toppling that left a cell above topple_threshold.
RendererGridRangeWitness ==
    /\ pc \in {"wave", "scan"}
    /\ topples > 0
    /\ \E c \in Cells : im[c] > topple_threshold

\* ------------------------------------------------------------------- C8
\* C8: getNeighbors(x, y) returns exactly the cells among (x-1,y), (x+1,y),
\* (x,y-1), (x,y+1) that lie on the lattice, each once, never (x,y) itself:
\* 4 for an interior cell, 3 on an edge, 2 in a corner, 0 when grid_size = 1.
\* Stated for the result of every call, in a toppling step or on its own.
OnBorder(v) == v = 0 \/ v = grid_size - 1

NeighborsOf(x, y, xs, ys) ==
    /\ Len(xs) = Len(ys)
    /\ Pairs(xs, ys) = InBounds(x, y)
    /\ Cardinality(Pairs(xs, ys)) = Len(xs)
    /\ <<x, y>> \notin Pairs(xs, ys)
    /\ Len(xs) = IF grid_size = 1 THEN 0
                 ELSE 4 - (IF OnBorder(x) THEN 1 ELSE 0) - (IF OnBorder(y) THEN 1 ELSE 0)

NeighborsOpenBoundary ==
    (pc = "called" \/ (pc \in {"wave", "scan"} /\ topples > 0)) =>
        NeighborsOf(idx, idy, xnbr, ynbr)

\* getNeighbors has been called for an interior cell and for a cell in the
\* middle of an edge.
NeighborsOpenBoundaryWitness ==
    /\ pc = "called"
    /\ grid_size >= 3
    /\ \/ ~ OnBorder(idx) /\ ~ OnBorder(idy) /\ Len(xnbr) = 4
       \/ OnBorder(idx) /\ ~ OnBorder(idy) /\ Len(xnbr) = 3

\* ------------------------------------------------------------------ C10
\* C10: the series holds the baseline and one entry per completed drop:
\* the entries after the last written one are still unwritten, the last
\* written entry is the mean (total mass / grid_size^2) of the relaxed
\* grid, the entry of a drop is written when its relaxation has ended,
\* whatever its cascade size, and no written entry changes afterwards.
Unwritten(e) == e = <<0, 1>>

MeanOf(g) == <<SumGrid(g), grid_size * grid_size>>

RunningAverageInv ==
    /\ DOMAIN avg = 0..iterations
    /\ (pc \in {"drop", "done"}) =>
          /\ RatEq(avg[i], MeanOf(grid))
          /\ \A k \in (i+1)..iterations : Unwritten(avg[k])
    /\ (pc \in {"wave", "scan", "stats"}) =>
          \A k \in (i+1)..iterations : Unwritten(avg[k])

RunningAverageStep ==
    /\ \A k \in 0..i : avg'[k] = avg[k]
    /\ IF pc = "stats"
       THEN /\ i' = i + 1
            /\ grid' = grid
            /\ Stable(grid)
            /\ RatEq(avg'[i+1], MeanOf(grid))
       ELSE /\ avg' = avg
            /\ i' = i

RunningAverageSeries == []RunningAverageInv /\ [][RunningAverageStep]_vars

\* A drop whose cascade size is at or above max_cascade has been completed
\* and its entry holds the mean of the relaxed grid.
RunningAverageSeriesWitness ==
    /\ pc \in {"drop", "done"}
    /\ i >= 1
    /\ cs >= max_cascade
    /\ ~ Unwritten(avg[i])
    /\ RatEq(avg[i], MeanOf(grid))

\* ------------------------------------------------------------------ C11
\* C11: with the display and the persist-frames switches enabled, the
\* display and the frame save both occur after every individual toppling
\* event and once more when the drop has completed (its statistics
\* recorded), whatever its cascade size.
RenderAfterEveryEvent ==
    [][ (pc = "wave" \/ pc = "stats") =>
          /\ flag_display => draws' = draws + 1
          /\ flag_save => fig_cnt' = fig_cnt + 1 ]_vars

\* ------------------------------------------------------------------ C14
\* C14: a wave topples exactly the batch captured before it starts (the
\* deposit cell for the first wave, otherwise all the cells >= 4 the scan
\* finds), each batch cell once and in the order of the batch; the batch
\* cell is set to 0 at its turn whatever its height, no other cell is
\* lowered during the wave, and the batch does not change during the wave.
BatchCell(k) == <<idx4[1][k], idx4[2][k]>>

WaveProtocol ==
    [][ /\ (pc = "drop" /\ pc' = "wave") =>
              /\ idx4' = << <<idx'>>, <<idy'>> >>
              /\ counter' = 1
              /\ j' = 0
              /\ grid'[<<idx', idy'>>] = grid[<<idx', idy'>>] + 1
        /\ pc = "wave" =>
              /\ j < counter
              /\ idx4' = idx4
              /\ counter' = counter
              /\ j' = j + 1
              /\ grid'[BatchCell(j + 1)] = 0
              /\ \A d \in Cells \ {BatchCell(j + 1)} : grid'[d] >= grid[d]
              /\ pc' = IF j' = counter THEN "scan" ELSE "wave"
        /\ pc = "scan" =>
              /\ j = counter
              /\ grid' = grid
              /\ Pairs(idx4'[1], idx4'[2]) = {c \in Cells : grid[c] >= topple_threshold}
              /\ Cardinality(Pairs(idx4'[1], idx4'[2])) = Len(idx4'[1])
              /\ counter' = Len(idx4'[1])
              /\ j' = 0
              /\ pc' = IF counter' = 0 THEN "stats" ELSE "wave" ]_vars

\* In the middle of a wave a cell outside the batch has reached the
\* threshold and waits for the next wave.
WaveProtocolWitness ==
    /\ pc = "wave"
    /\ j >= 1
    /\ \E c \in Cells :
          /\ grid[c] >= topple_threshold
          /\ c \notin Pairs(idx4[1], idx4[2])

\* ------------------------------------------------------------------ C15
\* Two cells of the batch b = <<row indices, column indices>> are orthogonal
\* neighbours.
AdjacentIn(b) ==
    \E p, q \in 1..Len(b[1]) :
        p # q /\ <<b[1][p], b[2][p]>> \in InBounds(b[1][q], b[2][q])

\* Two cells of the current batch are orthogonal neighbours.
AdjacentBatchCells ==
    /\ pc = "wave"
    /\ AdjacentIn(idx4)

\* The batches of a relaxation, in order, from the grid g and its first
\* batch b: the wave of lines 207-220 over b, then the scan of line 238.
RECURSIVE BatchesFrom(_, _)
BatchesFrom(g, b) ==
    IF Len(b[1]) = 0 THEN <<>>
    ELSE LET g2 == RowMajorWave(<<g, ZeroGrid, 0>>, b)[1]
         IN <<b>> \o BatchesFrom(g2, WhereUnstable(g2))

\* The batches of the drop that deposits on cell c of grid g (lines 177-239).
CascadeBatches(g, c) ==
    LET g1 == [g EXCEPT ![c] = Int8(@ + 1)]
    IN IF Unstable(g1, c) THEN BatchesFrom(g1, << <<c[1]>>, <<c[2]>> >>) ELSE <<>>

\* C15 as stated: on the largest lattice of the model some stable grid and
\* some deposit cell start a cascade one of whose batches holds two
\* orthogonally adjacent cells.  Every stable grid is an initial grid and
\* every drop starts from a stable grid, so these are all the cascades.
InBatchInterferenceReachable ==
    grid_size = MaxGridSize =>
        \E g \in InitGrids, c \in Cells :
            \E k \in 1..Len(CascadeBatches(g, c)) : AdjacentIn(CascadeBatches(g, c)[k])

\* C15 amended: no batch ever holds two orthogonally adjacent cells, and a
\* batch cell that waits for its turn still has the height it had when the
\* wave started: no cell receives a grain from a cell of its own batch
\* before its turn.
NoInBatchInterference ==
    /\ ~ AdjacentBatchCells
    /\ pc = "wave" => \A k \in (j+1)..counter : grid[BatchCell(k)] = wave0[1][BatchCell(k)]

\* A batch of several cells is being toppled: one cell is done, another waits.
NoInBatchInterferenceWitness ==
    /\ pc = "wave"
    /\ j >= 1
    /\ counter >= j + 1
    /\ i >= 1

\* ------------------------------------------------------------------ C16
\* C16: when the relaxation of a drop has finished, grid_iter[c] is the
\* number of times cell c was toppled (zeroed) during that drop.
ToppledCountsExact == pc = "stats" => \A c \in Cells : grid_iter[c] = toppled[c]

\* ------------------------------------------------------------------ C17
\* C17: a deposit that leaves the chosen cell below the threshold topples
\* nothing: the cascade size is 0, the chosen cell is one higher, every
\* other cell and grid_iter are unchanged, the total mass is one higher.
NonTopplingDropFrame ==
    [][ (pc = "drop" /\ grid[<<idx', idy'>>] + 1 < topple_threshold) =>
          /\ pc' = "stats"
          /\ cs' = 0
          /\ topples' = 0
          /\ counter' = 0
          /\ grid'[<<idx', idy'>>] = grid[<<idx', idy'>>] + 1
          /\ \A d \in Cells \ {<<idx', idy'>>} : grid'[d] = grid[d]
          /\ grid_iter' = grid_iter
          /\ SumGrid(grid') = SumGrid(grid) + 1 ]_vars

\* A deposit has left its cell below the threshold, in a drop that started
\* with counts left in grid_iter.
NonTopplingDropFrameWitness ==
    /\ pc = "stats"
    /\ cs = 0
    /\ grid[<<idx, idy>>] >= 1
    /\ grid_iter # ZeroGrid

\* ------------------------------------------------------------------ C18
\* C18: whatever the order in which the for loop visits the cells of a
\* batch, when the wave ends the grid, the toppled counts and the cascade
\* size are those of the visit in row-major order, and every batch cell has
\* been visited once.
OrderIndependence ==
    pc = "scan" =>
        /\ left = {}
        /\ j = counter
        /\ <<grid, grid_iter, cs>> = RowMajorWave(wave0, idx4)

\* A wave has ended whose last toppled cell is not the last one of the batch.
OrderIndependenceWitness ==
    /\ pc = "scan"
    /\ counter >= 2
    /\ <<idx, idy>> # BatchCell(counter)

\* ------------------------------------------------------------------ C19
\* C19: in every reachable state every cell height is in [0, 7], far from
\* the limits of the int8 grid.
HeightBound == \A c \in Cells : grid[c] >= 0 /\ grid[c] <= (topple_threshold - 1) + 4

\* In the middle of a cascade of a later drop a cell that had height 3 has
\* received a grain from each of its neighbours on the lattice.
HeightBoundWitness ==
    /\ pc \in {"wave", "scan"}
    /\ i >= 1
    /\ \E c \in Cells :
          grid[c] = (topple_threshold - 1) + Cardinality(InBounds(c[1], c[2]))

\* ------------------------------------------------------------------ C12
\* The configuration is malformed.
Malformed == cfg_grid_size <= 0 \/ cfg_num_bins <= 0 \/ cfg_max_cascade <= 0

\* C12: with a malformed configuration the program fails during the set-up:
\* it records no statistic, not even the baseline average, and never gets to
\* a drop or to the end of the run.
MalformedConfigFailsFast ==
    Malformed =>
        /\ cfg_pc \in {"bins", "grid", "raised"}
        /\ ~ cfg_avg0
        /\ cfg_line \notin {174}

\* ------------------------------------------------------------------ C13
\* Lexicographic order of two names of the same length.
LexLess(a, b) ==
    \E k \in 1..Len(a) :
        /\ \A m \in 1..(k-1) : a[m] = b[m]
        /\ a[k] < b[k]

\* C13: the frames are written to the video in increasing order of their
\* zero-padded names, whatever the order of the list glob returned, and the
\* frame read first, which fixes the frame size, is the one with the
\* smallest name.
VideoFrameOrder ==
    /\ \A p, q \in 1..Len(video) : p < q => LexLess(video[p], video[q])
    /\ cnt >= 1 => first_read = figname(0)

====
